---- MODULE Spec2Model ----
(***************************************************************************)
(* Model of scene_graph/graph_manager.py (class GraphManager) and of the   *)
(* caller scene_graph/graph.py (class SceneGraph).                         *)
(*                                                                         *)
(* Python dicts keep insertion order, so a dict is a sequence of           *)
(* <<key, value>> pairs with pairwise distinct keys.  A JSON object of the *)
(* scene (an object, a relation) is a TLA+ record whose DOMAIN is the set  *)
(* of keys the JSON object holds: a missing key is a key out of DOMAIN.    *)
(***************************************************************************)
EXTENDS Integers, Sequences, FiniteSets, TLC

VARIABLES
    data,        \* SceneGraph.data["objects"]: the scene, as loaded
    data0,       \* the scene as it was handed to GraphManager(data) (history)
    graph,       \* GraphManager.graph (nx.Graph)
    pc,          \* "new", "built" (constructor returned), "failed" (it raised)
    op,          \* the last operation called
    raised,      \* the exception the last operation raised, or "none"
    position,    \* the position map last returned by calculate_positions
    found,       \* the list last returned by find_objects_by_attribute
    query,       \* the arguments of that call
    edge_traces, \* the traces last returned by create_edge_trace
    node_trace,  \* the trace last returned by create_node_trace
    figure,      \* the data of the figure last shown by show_figure
    overlay      \* what the last draw_graph_on_image drew on the image

vars == <<data, data0, graph, pc, op, raised, position, found, query,
          edge_traces, node_trace, figure, overlay>>

----------------------------------------------------------------------------
(* Bounds of the model *)

MaxObjs == 2     \* objects per scene
MaxRels == 1     \* relations per object
MaxParallel == 2 \* relations per object where several may join one pair

(* Coordinates are in hundredths of a layout unit *)
label_offset == 4

(* Pixels between the top of a bounding box and the object's name *)
name_offset == 10

----------------------------------------------------------------------------
(* Python values *)

None == "None"                      \* Python's None (JSON null)

(* dict: sequence of <<key, value>>, keys pairwise distinct *)
DictKeys(d) == {d[i][1] : i \in 1..Len(d)}

DictHas(d, k) == k \in DictKeys(d)

DictIndex(d, k) == CHOOSE i \in 1..Len(d) : d[i][1] = k

\* d[k]
DictAt(d, k) == d[DictIndex(d, k)][2]

\* d.get(k, default)
DictGet(d, k, default) == IF DictHas(d, k) THEN DictAt(d, k) ELSE default

\* d[k] = v: an existing key keeps its place, a new key goes last
DictSet(d, k, v) ==
    IF DictHas(d, k)
    THEN [d EXCEPT ![DictIndex(d, k)] = <<k, v>>]
    ELSE Append(d, <<k, v>>)

\* d.update(e)
RECURSIVE DictUpdate(_, _)
DictUpdate(d, e) ==
    IF e = <<>> THEN d
    ELSE DictUpdate(DictSet(d, Head(e)[1], Head(e)[2]), Tail(e))

\* the keys of d, in order
DictKeySeq(d) == [i \in 1..Len(d) |-> d[i][1]]

----------------------------------------------------------------------------
(* nx.Graph: _node is a dict id -> attribute dict; _adj is a dict           *)
(* id -> dict neighbour -> edge data, where both directions of an edge      *)
(* share one data dict: adj keeps the neighbour order, edata the one shared *)
(* dict of each unordered pair.                                            *)

EmptyGraph == [node |-> <<>>, adj |-> <<>>, edata |-> <<>>]

NodeSeq(G) == DictKeySeq(G.node)

NodeSet(G) == DictKeys(G.node)

EdgeSet(G) == DictKeys(G.edata)

\* add_node without the membership test: a node already there is entered a
\* second time
add_node_append(G, n, attr) ==
    [G EXCEPT !.node = Append(@, <<n, attr>>),
              !.adj  = Append(@, <<n, <<>>>>)]

\* Graph.add_node(n, **attr)
add_node(G, n, attr) ==
    IF DictHas(G.node, n)
    THEN [G EXCEPT !.node = DictSet(@, n, DictUpdate(DictAt(@, n), attr))]
    ELSE [G EXCEPT !.node = Append(@, <<n, DictUpdate(<<>>, attr)>>),
                   !.adj  = Append(@, <<n, <<>>>>)]

\* adj[u][v] = datadict
SetNbr(adj, u, v) ==
    IF DictHas(adj, u)
    THEN DictSet(adj, u, IF \E i \in 1..Len(DictAt(adj, u)) : DictAt(adj, u)[i] = v
                         THEN DictAt(adj, u)
                         ELSE Append(DictAt(adj, u), v))
    ELSE adj

\* the edge entered with the data dict it already has taking precedence
LinkEdge_keep_first(G, u, v, attr) ==
    [G EXCEPT !.edata = DictSet(@, {u, v}, DictUpdate(attr, DictGet(@, {u, v}, <<>>))),
              !.adj   = SetNbr(SetNbr(@, u, v), v, u)]

\* the edge's data dict, updated, and entered in both directions
LinkEdge(G, u, v, attr) ==
    [G EXCEPT !.edata = DictSet(@, {u, v}, DictUpdate(DictGet(@, {u, v}, <<>>), attr)),
              !.adj   = SetNbr(SetNbr(@, u, v), v, u)]

\* add_edge without the creation of missing endpoints
add_edge_no_nodes(G, u, v, attr) == LinkEdge(G, u, v, attr)

\* Graph.add_edge(u, v, **attr)
add_edge(G, u, v, attr) ==
    LinkEdge(add_node(add_node(G, u, <<>>), v, <<>>), u, v, attr)

\* the neighbours of the i-th node not among the nodes enumerated before it
RECURSIVE EdgesFrom(_, _)
EdgesFrom(G, i) ==
    IF i > Len(G.adj) THEN <<>>
    ELSE LET n    == G.adj[i][1]
             nbrs == G.adj[i][2]
             seen == {G.adj[j][1] : j \in 1..(i - 1)}
             keep == SelectSeq(nbrs, LAMBDA m : m \notin seen)
         IN  [j \in 1..Len(keep) |-> <<n, keep[j], DictGet(G.edata, {n, keep[j]}, <<>>)>>]
             \o EdgesFrom(G, i + 1)

\* Graph.edges(data=True): <<u, v, datadict>>, each edge once
edges(G) == EdgesFrom(G, 1)

----------------------------------------------------------------------------
(* The scene: data["objects"], a sequence of objects.  The scenes drawn    *)
(* are those of at most MaxObjs objects with ids in Ids, each with at most *)
(* MaxRels relations to an id of Ids or to AbsentId, and those scenes with *)
(* one required key removed from one object or from one relation.          *)

Ids == 1..MaxObjs

AbsentId == MaxObjs + 1    \* an id no object has

\* a bounding box holds normalized coordinates, here in tenths: x_min 1 is 0.1
ObjProfiles ==
    { [name |-> "cup",   attributes |-> << <<"color", "red">> >>,
       bounding_box |-> [x_min |-> 1, y_min |-> 2, x_max |-> 4, y_max |-> 6]],
      [name |-> "table", attributes |-> << <<"size", "big">>, <<"color", "red">> >>,
       bounding_box |-> [x_min |-> 3, y_min |-> 5, x_max |-> 9, y_max |-> 10]] }

RelKinds ==
    { [relation_type |-> "on top of", relation_description |-> "rests on it"],
      [relation_type |-> "next to",   relation_description |-> "stands beside it"] }

Relations ==
    { [object_id |-> t, relation_type |-> k.relation_type,
       relation_description |-> k.relation_description] :
        t \in Ids \cup {AbsentId}, k \in RelKinds }

SeqsUpTo(S, n) == UNION {[1..m -> S] : m \in 0..n}

Objects ==
    { [id |-> i, name |-> p.name, bounding_box |-> p.bounding_box,
       attributes |-> p.attributes, relations |-> r] :
        i \in Ids, p \in ObjProfiles, r \in SeqsUpTo(Relations, MaxRels) }

\* the scenes of n objects
ScenesOf(n) == [1..n -> Objects]

\* objects with up to MaxParallel relations each, and the scenes of n of them
RelatedObjects ==
    { [id |-> i, name |-> p.name, bounding_box |-> p.bounding_box,
       attributes |-> p.attributes, relations |-> r] :
        i \in Ids, p \in ObjProfiles, r \in SeqsUpTo(Relations, MaxParallel) }

RelatedScenesOf(n) == [1..n -> RelatedObjects]

\* the JSON object r without its key k
Without(r, k) == [x \in (DOMAIN r) \ {k} |-> r[x]]

ObjDefects == {"id", "name", "attributes", "relations"}

RelDefects == {"relation_description"}

\* the scene s with one key removed from one object or from the first
\* relation of one object
Damaged(s) ==
    { [s EXCEPT ![i] = Without(@, k)] : i \in 1..Len(s), k \in ObjDefects }
    \cup
    { [s EXCEPT ![i] = [@ EXCEPT !.relations = [@ EXCEPT ![1] = Without(@, k)]]] :
        i \in {j \in 1..Len(s) : s[j].relations # <<>>}, k \in RelDefects }

\* the scene s with 'relations' removed from one object: the one key
\* build_graph reads with a default and draw_graph_on_image without
Unlinked(s) == { [s EXCEPT ![i] = Without(@, "relations")] : i \in 1..Len(s) }

----------------------------------------------------------------------------
(* GraphManager.build_graph and what it calls.  The state of a build is    *)
(* [graph, objects, err]: self.graph, the objects of data (add_object      *)
(* writes into them) and the exception raised, "none" while none is.       *)

\* obj.get(k, default)
Get(obj, k, default) == IF k \in DOMAIN obj THEN obj[k] ELSE default

\* GraphManager.add_object(obj), obj the i-th object of the scene
add_object(st, i) ==
    LET obj == st.objects[i]
    IN  IF "name" \notin DOMAIN obj
        THEN [st EXCEPT !.err = "KeyError"]
        ELSE LET node_attributes == DictSet(Get(obj, "attributes", <<>>), "name", obj.name)
                 \* update() writes into the dict the object holds, if it holds one
                 objs == IF "attributes" \in DOMAIN obj
                         THEN [st.objects EXCEPT ![i] = [@ EXCEPT !.attributes = node_attributes]]
                         ELSE st.objects
             IN  IF "id" \notin DOMAIN obj
                 THEN [st EXCEPT !.objects = objs, !.err = "KeyError"]
                 ELSE [st EXCEPT !.objects = objs,
                                 !.graph = add_node(@, obj.id, node_attributes)]

\* GraphManager.add_relation(source_id, relation)
add_relation(st, source_id, relation) ==
    IF {"object_id", "relation_type", "relation_description"} \subseteq DOMAIN relation
    THEN [st EXCEPT !.graph = add_edge(@, source_id, relation.object_id,
                        << <<"relation_type", relation.relation_type>>,
                           <<"description", relation.relation_description>> >>)]
    ELSE [st EXCEPT !.err = "KeyError"]

\* the inner loop of build_graph, from the j-th relation of the i-th object
RECURSIVE BuildRelations(_, _, _)
BuildRelations(st, i, j) ==
    LET rels == Get(st.objects[i], "relations", <<>>)
    IN  IF st.err # "none" \/ j > Len(rels) THEN st
        ELSE BuildRelations(add_relation(st, st.objects[i].id, rels[j]), i, j + 1)

\* the outer loop of build_graph, from the i-th object
RECURSIVE BuildObjects(_, _)
BuildObjects(st, i) ==
    IF st.err # "none" \/ i > Len(st.objects) THEN st
    ELSE LET added == add_object(st, i)
         IN  BuildObjects(IF added.err # "none" THEN added
                          ELSE BuildRelations(added, i, 1), i + 1)

\* GraphManager.build_graph(data) on self.graph = G
build_graph(G, objects) ==
    BuildObjects([graph |-> G, objects |-> objects, err |-> "none"], 1)

----------------------------------------------------------------------------
(* The operations on a built graph *)

\* Graph.nodes(data=True) filtered by attributes.get(attribute) == value
RECURSIVE FindFrom(_, _, _, _)
FindFrom(G, attribute, value, i) ==
    IF i > Len(G.node) THEN <<>>
    ELSE (IF DictGet(G.node[i][2], attribute, None) = value
          THEN <<G.node[i][1]>> ELSE <<>>)
         \o FindFrom(G, attribute, value, i + 1)

\* GraphManager.find_objects_by_attribute(attribute, value)
find_objects_by_attribute(G, attribute, value) == FindFrom(G, attribute, value, 1)

\* the points the layout may put a node at
LayoutPoints == { <<-100, 60>>, <<100, -60>> }

\* the layout is rescaled about the mean of the positions, so the nodes are
\* not all at one point
Spread(G) == { p \in [NodeSet(G) -> LayoutPoints] : \E n, m \in NodeSet(G) : p[n] # p[m] }

center == <<0, 0>>

\* nx.spring_layout(G, k=1), seed=None: no node, no position; one node, the
\* centre; otherwise positions drawn from numpy's global generator, which no
\* call seeds: any map of the nodes to points
spring_layout(G) ==
    IF Cardinality(NodeSet(G)) = 0 THEN { <<>> }
    ELSE IF Cardinality(NodeSet(G)) = 1 THEN { [n \in NodeSet(G) |-> center] }
    ELSE Spread(G)

\* calculate_positions keeping only the nodes that have an edge
calculate_positions_linked(G) ==
    { [n \in {m \in DOMAIN raw : \E e \in EdgeSet(G) : m \in e} |-> raw[n]] :
        raw \in spring_layout(G) }

\* GraphManager.calculate_positions(): the maps it can return
calculate_positions(G) ==
    { [node \in DOMAIN raw_positions |-> <<raw_positions[node][1], raw_positions[node][2]>>] :
        raw_positions \in spring_layout(G) }

\* the body of the loop of create_edge_trace for one edge
EdgePrimitives(pos, edge) ==
    LET x0 == pos[edge[1]][1]
        y0 == pos[edge[1]][2]
        x1 == pos[edge[2]][1]
        y1 == pos[edge[2]][2]
    IN  << [mode |-> "lines", x |-> <<x0, x1>>, y |-> <<y0, y1>>, text |-> <<>>],
           [mode |-> "text", x |-> <<(x0 + x1) \div 2>>,
            y |-> <<((y0 + y1) \div 2) + label_offset>>,
            text |-> <<DictAt(edge[3], "relation_type")>>] >>

RECURSIVE EdgeTraceFrom(_, _, _)
EdgeTraceFrom(es, pos, i) ==
    IF i > Len(es) THEN [ret |-> <<>>, err |-> "none"]
    ELSE IF ~ ({es[i][1], es[i][2]} \subseteq DOMAIN pos /\ DictHas(es[i][3], "relation_type"))
         THEN [ret |-> <<>>, err |-> "KeyError"]
         ELSE LET rest == EdgeTraceFrom(es, pos, i + 1)
              IN  IF rest.err # "none" THEN rest
                  ELSE [ret |-> EdgePrimitives(pos, es[i]) \o rest.ret, err |-> "none"]

\* GraphManager.create_edge_trace(position)
create_edge_trace(G, pos) == EdgeTraceFrom(edges(G), pos, 1)

\* "<br>".join(items), a string being its sequence of pieces
RECURSIVE Join(_)
Join(items) ==
    IF items = <<>> THEN <<>>
    ELSE IF Len(items) = 1 THEN Head(items)
    ELSE Head(items) \o <<"<br>">> \o Join(Tail(items))

\* the hover_text the loop of create_node_trace computes for a node
HoverText(attrs) ==
    LET others == SelectSeq(attrs, LAMBDA kv : kv[1] # "name")
    IN  <<"object: ", DictAt(attrs, "name"), "<br>">>
        \o Join([i \in 1..Len(others) |-> <<others[i][1], ": ", others[i][2]>>])

\* the loop of create_node_trace from the i-th node; hover_text is the one
\* variable the loop assigns over and over, "unbound" before the first node
RECURSIVE NodeTraceFrom(_, _, _, _)
NodeTraceFrom(G, pos, i, acc) ==
    IF i > Len(G.node) THEN acc
    ELSE LET node  == G.node[i][1]
             attrs == G.node[i][2]
         IN  IF node \notin DOMAIN pos \/ ~ DictHas(attrs, "name")
             THEN [acc EXCEPT !.err = "KeyError"]
             ELSE NodeTraceFrom(G, pos, i + 1,
                      [acc EXCEPT !.node_x = Append(@, pos[node][1]),
                                  !.node_y = Append(@, pos[node][2]),
                                  !.hover_text = HoverText(attrs),
                                  !.bound = TRUE,
                                  !.text = Append(@, DictAt(attrs, "name")),
                                  !.node_colors = Append(@, "skyblue")])

NoTrace == [x |-> <<>>, y |-> <<>>, text |-> <<>>, hovertext |-> <<>>, color |-> <<>>]

\* GraphManager.create_node_trace(position)
create_node_trace(G, pos) ==
    LET loop == NodeTraceFrom(G, pos, 1,
                    [node_x |-> <<>>, node_y |-> <<>>, text |-> <<>>, node_colors |-> <<>>,
                     hover_text |-> <<>>, bound |-> FALSE, err |-> "none"])
    IN  IF loop.err # "none" THEN [ret |-> NoTrace, err |-> loop.err]
        ELSE IF ~ loop.bound THEN [ret |-> NoTrace, err |-> "UnboundLocalError"]
        ELSE [ret |-> [x |-> loop.node_x, y |-> loop.node_y, text |-> loop.text,
                       hovertext |-> loop.hover_text, color |-> loop.node_colors],
              err |-> "none"]

\* the hover text a renderer shows for the i-th marker of a trace: hovertext
\* is one string, which applies to every marker
MarkerHover(trace, i) == trace.hovertext

\* the inner loop of "Building the graph" in draw_graph_on_image
RECURSIVE DrawRelations(_, _, _)
DrawRelations(st, i, j) ==
    LET rels == st.objects[i].relations
    IN  IF st.err # "none" \/ j > Len(rels) THEN st
        ELSE IF ~ ({"object_id", "relation_type"} \subseteq DOMAIN rels[j])
             THEN [st EXCEPT !.err = "KeyError"]
             ELSE DrawRelations(
                      [st EXCEPT !.graph = add_edge(@, st.objects[i].id, rels[j].object_id,
                                               << <<"label", rels[j].relation_type>> >>)],
                      i, j + 1)

\* its outer loop
RECURSIVE DrawObjects(_, _)
DrawObjects(st, i) ==
    IF st.err # "none" \/ i > Len(st.objects) THEN st
    ELSE LET obj == st.objects[i]
         IN  IF ~ ({"id", "name"} \subseteq DOMAIN obj)
             THEN [st EXCEPT !.err = "KeyError"]
             ELSE LET added == [st EXCEPT !.graph = add_node(@, obj.id, << <<"name", obj.name>> >>)]
                  IN  IF "relations" \notin DOMAIN obj
                      THEN [added EXCEPT !.err = "KeyError"]
                      ELSE DrawObjects(DrawRelations(added, i, 1), i + 1)

\* the sizes (width, height) of the images drawn on
ImageSizes == { <<1000, 800>> }

\* a normalized coordinate of t tenths times an image dimension
Tenths(t, dim) == (t * dim) \div 10

\* a layout coordinate of c hundredths times an image dimension
Hundredths(c, dim) == (c * dim) \div 100

\* patches.Rectangle(xy, width, height) with x_max * width as its width
bbox_rectangle_to_corner(bbox, width, height) ==
    [xy |-> <<Tenths(bbox.x_min, width), Tenths(bbox.y_min, height)>>,
     width |-> Tenths(bbox.x_max, width),
     height |-> Tenths(bbox.y_max, height)]

\* the patches.Rectangle(xy, width, height) drawn for a bounding box
bbox_rectangle(bbox, width, height) ==
    [xy |-> <<Tenths(bbox.x_min, width), Tenths(bbox.y_min, height)>>,
     width |-> Tenths(bbox.x_max - bbox.x_min, width),
     height |-> Tenths(bbox.y_max - bbox.y_min, height)]

\* the ax.text drawn above a bounding box
bbox_text(obj, width, height) ==
    [x |-> ((obj.bounding_box.x_min + obj.bounding_box.x_max) * width) \div 20,
     y |-> Tenths(obj.bounding_box.y_min, height) - name_offset,
     text |-> obj.name]

NoOverlay == [size |-> <<0, 0>>, rects |-> <<>>, names |-> <<>>,
              lines |-> <<>>, dots |-> <<>>, texts |-> <<>>]

\* the first loop of draw_graph_on_image, from the i-th object
RECURSIVE DrawBoxes(_, _, _)
DrawBoxes(ov, objects, i) ==
    IF i > Len(objects) THEN [overlay |-> ov, err |-> "none"]
    ELSE IF "bounding_box" \notin DOMAIN objects[i]
         THEN [overlay |-> ov, err |-> "KeyError"]
         ELSE LET boxed == [ov EXCEPT !.rects = Append(@,
                               bbox_rectangle(objects[i].bounding_box,
                                              ov.size[1], ov.size[2]))]
              IN  IF "name" \notin DOMAIN objects[i]
                  THEN [overlay |-> boxed, err |-> "KeyError"]
                  ELSE DrawBoxes([boxed EXCEPT !.names = Append(@,
                                      bbox_text(objects[i], ov.size[1], ov.size[2]))],
                                 objects, i + 1)

\* "Scaling positions to image size"
ScaledPositions(pos, size) ==
    [node \in DOMAIN pos |-> <<Hundredths(pos[node][1], size[1]),
                               Hundredths(pos[node][2], size[2])>>]

\* "Drawing edges"
DrawEdges(G, positions) ==
    LET es == edges(G)
    IN  [k \in 1..Len(es) |->
            [x |-> <<positions[es[k][1]][1], positions[es[k][2]][1]>>,
             y |-> <<positions[es[k][1]][2], positions[es[k][2]][2]>>]]

\* "Drawing nodes and labels", from the i-th node: the dot, then the text,
\* which needs the node's name
RECURSIVE DrawNodes(_, _, _, _)
DrawNodes(ov, G, positions, i) ==
    IF i > Len(G.node) THEN [overlay |-> ov, err |-> "none"]
    ELSE LET node   == G.node[i][1]
             dotted == [ov EXCEPT !.dots = Append(@, positions[node])]
         IN  IF ~ DictHas(G.node[i][2], "name")
             THEN [overlay |-> dotted, err |-> "KeyError"]
             ELSE DrawNodes([dotted EXCEPT !.texts = Append(@,
                                 [x |-> positions[node][1], y |-> positions[node][2],
                                  text |-> DictAt(G.node[i][2], "name")])],
                            G, positions, i + 1)

\* draw_graph_on_image with Image.open called after "Building the graph"
draw_graph_on_image_late_open(G, objects, opened, size) ==
    LET built == DrawObjects([graph |-> G, objects |-> objects, err |-> "none"], 1)
    IN  { [graph |-> built.graph, err |-> "FileNotFoundError", overlay |-> NoOverlay] }

\* GraphManager.draw_graph_on_image(image_path, json_data): the outcomes it
\* can have, each the graph it leaves, the exception it raises and what it
\* drew; opened says whether Image.open succeeds, size is image.size
draw_graph_on_image(G, objects, opened, size) ==
    IF ~ opened
    THEN { [graph |-> G, err |-> "FileNotFoundError", overlay |-> NoOverlay] }
    ELSE LET boxes == DrawBoxes([NoOverlay EXCEPT !.size = size], objects, 1)
             built == DrawObjects([graph |-> G, objects |-> objects, err |-> "none"], 1)
         IN  IF boxes.err # "none"
             THEN { [graph |-> G, err |-> boxes.err, overlay |-> boxes.overlay] }
             ELSE IF built.err # "none"
             THEN { [graph |-> built.graph, err |-> built.err, overlay |-> boxes.overlay] }
             ELSE { LET positions == ScaledPositions(p, size)
                        drawn == DrawNodes([boxes.overlay EXCEPT
                                                !.lines = DrawEdges(built.graph, positions)],
                                           built.graph, positions, 1)
                    IN  [graph |-> built.graph, err |-> drawn.err, overlay |-> drawn.overlay]
                    : p \in calculate_positions(built.graph) }

----------------------------------------------------------------------------
(* The state machine *)

Attributes == {"color", "size"}

Values == {"red", None}

NoQuery == [attribute |-> "", value |-> ""]

Loaded(scene) ==
    /\ data = scene
    /\ data0 = data
    /\ graph = EmptyGraph
    /\ pc = "new"
    /\ op = "none"
    /\ raised = "none"
    /\ position = <<>>
    /\ found = <<>>
    /\ query = NoQuery
    /\ edge_traces = <<>>
    /\ node_trace = NoTrace
    /\ figure = <<>>
    /\ overlay = NoOverlay

\* GraphManager(data): __init__ builds the graph
Construct ==
    /\ pc = "new"
    /\ LET built == build_graph(EmptyGraph, data)
       IN  /\ graph' = built.graph
           /\ data' = built.objects
           /\ raised' = built.err
           /\ pc' = IF built.err = "none" THEN "built" ELSE "failed"
    /\ op' = "build_graph"
    /\ UNCHANGED <<data0, position, found, query, edge_traces, node_trace, figure,
                   overlay>>

FindObjectsByAttribute ==
    /\ pc = "built"
    /\ \E attribute \in Attributes, value \in Values :
          /\ query' = [attribute |-> attribute, value |-> value]
          /\ found' = find_objects_by_attribute(graph, attribute, value)
    /\ op' = "find_objects_by_attribute"
    /\ raised' = "none"
    /\ edge_traces' = <<>>
    /\ node_trace' = NoTrace
    /\ figure' = <<>>
    /\ overlay' = NoOverlay
    /\ UNCHANGED <<data, data0, graph, pc, position>>

CalculatePositions ==
    /\ pc = "built"
    /\ position' \in calculate_positions(graph)
    /\ op' = "calculate_positions"
    /\ raised' = "none"
    /\ found' = <<>>
    /\ query' = NoQuery
    /\ edge_traces' = <<>>
    /\ node_trace' = NoTrace
    /\ figure' = <<>>
    /\ overlay' = NoOverlay
    /\ UNCHANGED <<data, data0, graph, pc>>

CreateEdgeTrace ==
    /\ pc = "built"
    /\ LET r == create_edge_trace(graph, position)
       IN  /\ edge_traces' = r.ret
           /\ raised' = r.err
    /\ op' = "create_edge_trace"
    /\ found' = <<>>
    /\ query' = NoQuery
    /\ node_trace' = NoTrace
    /\ figure' = <<>>
    /\ overlay' = NoOverlay
    /\ UNCHANGED <<data, data0, graph, pc, position>>

CreateNodeTrace ==
    /\ pc = "built"
    /\ LET r == create_node_trace(graph, position)
       IN  /\ node_trace' = r.ret
           /\ raised' = r.err
    /\ op' = "create_node_trace"
    /\ found' = <<>>
    /\ query' = NoQuery
    /\ edge_traces' = <<>>
    /\ figure' = <<>>
    /\ overlay' = NoOverlay
    /\ UNCHANGED <<data, data0, graph, pc, position>>

\* SceneGraph.show_figure(edge_traces, node_trace): the data of the figure
show_figure(traces, trace) == traces \o <<trace>>

\* SceneGraph.interactive_visualize(): the layout, the two traces, the figure;
\* an exception of a step ends it
InteractiveVisualize ==
    /\ pc = "built"
    /\ \E p \in calculate_positions(graph) :
          LET e == create_edge_trace(graph, p)
              n == create_node_trace(graph, p)
          IN  /\ position' = p
              /\ edge_traces' = e.ret
              /\ node_trace' = IF e.err = "none" THEN n.ret ELSE NoTrace
              /\ raised' = IF e.err # "none" THEN e.err ELSE n.err
              /\ figure' = IF e.err = "none" /\ n.err = "none"
                           THEN show_figure(e.ret, n.ret) ELSE <<>>
    /\ op' = "interactive_visualize"
    /\ found' = <<>>
    /\ query' = NoQuery
    /\ overlay' = NoOverlay
    /\ UNCHANGED <<data, data0, graph, pc>>

\* SceneGraph.draw_graph_on_image(image_path)
DrawGraphOnImage ==
    /\ pc = "built"
    /\ \E opened \in BOOLEAN, size \in ImageSizes :
          \E r \in draw_graph_on_image(graph, data, opened, size) :
              /\ graph' = r.graph
              /\ raised' = r.err
              /\ overlay' = r.overlay
    /\ op' = "draw_graph_on_image"
    /\ found' = <<>>
    /\ query' = NoQuery
    /\ edge_traces' = <<>>
    /\ node_trace' = NoTrace
    /\ figure' = <<>>
    /\ UNCHANGED <<data, data0, pc, position>>

Next ==
    \/ Construct
    \/ FindObjectsByAttribute
    \/ CalculatePositions
    \/ CreateEdgeTrace
    \/ CreateNodeTrace
    \/ InteractiveVisualize
    \/ DrawGraphOnImage

\* a scene is loaded, the graph is built, and the operations are called in
\* any order
Init ==
    \E n \in 0..MaxObjs : \E s \in ScenesOf(n) : \E scene \in {s} \cup Unlinked(s) :
        Loaded(scene)

Spec == Init /\ [][Next]_vars

\* a scene of any shape is loaded and the graph is built
InitBuild ==
    \E n \in 0..MaxObjs : \E s \in ScenesOf(n) : \E scene \in {s} \cup Damaged(s) :
        Loaded(scene)

SpecBuild == InitBuild /\ [][Construct]_vars

\* a complete scene with several relations per object is loaded and the
\* graph is built
InitRelations ==
    \E n \in 0..MaxObjs : \E s \in RelatedScenesOf(n) : Loaded(s)

SpecRelations == InitRelations /\ [][Construct]_vars

----------------------------------------------------------------------------
(* What the claims speak of *)

\* every key the schema requires of an object and of a relation is there
Complete(s) ==
    \A i \in 1..Len(s) :
        /\ {"id", "name", "attributes", "relations"} \subseteq DOMAIN s[i]
        /\ \A j \in 1..Len(s[i].relations) :
              {"object_id", "relation_type", "relation_description"}
                  \subseteq DOMAIN s[i].relations[j]

\* the ids of the objects that have one
ObjectIds(s) == {s[i].id : i \in {j \in 1..Len(s) : "id" \in DOMAIN s[j]}}

\* the ids the relations of the i-th object point to
TargetsOf(s, i) ==
    LET rels == Get(s[i], "relations", <<>>)
    IN  {rels[j].object_id : j \in {k \in 1..Len(rels) : "object_id" \in DOMAIN rels[k]}}

TargetIds(s) == UNION {TargetsOf(s, i) : i \in 1..Len(s)}

DistinctIds(s) == \A i, j \in 1..Len(s) : Get(s[i], "id", 0) = Get(s[j], "id", 0) => i = j

Dangling(s) == TargetIds(s) \ ObjectIds(s)

WellFormed(s) == Complete(s) /\ DistinctIds(s) /\ Dangling(s) = {}

NoDuplicates(seq) == \A i, j \in 1..Len(seq) : seq[i] = seq[j] => i = j

\* C1: after build_graph on a well-formed scene (distinct ids, every relation
\* to an object of the scene, objects in any order) the build has succeeded,
\* the graph lists every node once and its node set is the set of object ids.
C1_OneNodePerObject ==
    (op = "build_graph" /\ WellFormed(data0)) =>
        /\ pc = "built"
        /\ NoDuplicates(NodeSeq(graph))
        /\ NodeSet(graph) = ObjectIds(data0)

\* a well-formed scene of two objects, the first with the larger id and with
\* a relation to the second, which is listed after it
C1_Witness ==
    /\ op = "build_graph" /\ WellFormed(data0) /\ Len(data0) = 2
    /\ data0[1].id > data0[2].id
    /\ data0[2].id \in TargetsOf(data0, 1)
    /\ Len(graph.node) = 2

\* C2: building a scene with a relation to an id no object has fails with
\* DanglingReferenceError, and no node is made for the missing id.
C2_DanglingReferenceRaises ==
    (op = "build_graph" /\ Complete(data0) /\ Dangling(data0) # {}) =>
        /\ pc = "failed"
        /\ raised = "DanglingReferenceError"
        /\ Dangling(data0) \cap NodeSet(graph) = {}

\* C3: building a scene in which two objects share an id fails with
\* DuplicateNodeError instead of merging the two objects into one node.
C3_DuplicateIdRaises ==
    (op = "build_graph" /\ Complete(data0) /\ ~ DistinctIds(data0)) =>
        /\ pc = "failed"
        /\ raised = "DuplicateNodeError"

\* C4: when build_graph fails partway through a scene, the graph holds none
\* of the scene's nodes or edges.
C4_AllOrNothing ==
    (op = "build_graph" /\ raised # "none") => graph = EmptyGraph

\* C5: once build_graph has completed, on any scene, both endpoints of every
\* edge are nodes of the graph, and they still are after any sequence of the
\* other operations.
C5_EdgeEndpointsAreNodes ==
    pc = "built" =>
        /\ \A e \in EdgeSet(graph) : e \subseteq NodeSet(graph)
        /\ \A i \in 1..Len(graph.adj) :
              /\ graph.adj[i][1] \in NodeSet(graph)
              /\ \A j \in 1..Len(graph.adj[i][2]) : graph.adj[i][2][j] \in NodeSet(graph)

\* a relation to a missing id was built into an edge, and the overlay has
\* been drawn since
C5_Witness ==
    /\ pc = "built" /\ op = "draw_graph_on_image" /\ raised = "KeyError"
    /\ Dangling(data0) # {}
    /\ \E e \in EdgeSet(graph) : e \cap Dangling(data0) # {}

\* C6: once build_graph has completed, no later operation changes the graph
\* (nodes, node attributes, edges, edge attributes).
C6_GraphReadOnly == [][pc = "built" => graph' = graph]_vars

\* the nodes, in enumeration order, that store the attribute with the value
RECURSIVE StoredEqual(_, _, _, _)
StoredEqual(G, attribute, value, i) ==
    IF i > Len(G.node) THEN <<>>
    ELSE (IF DictHas(G.node[i][2], attribute) /\ DictAt(G.node[i][2], attribute) = value
          THEN <<G.node[i][1]>> ELSE <<>>)
         \o StoredEqual(G, attribute, value, i + 1)

\* C7: find_objects_by_attribute(attribute, value) returns, in node order,
\* exactly the ids of the nodes that store attribute with a value equal to
\* value, for every attribute and every query value, and raises nothing.
C7_FindExactlyStored ==
    op = "find_objects_by_attribute" =>
        /\ raised = "none"
        /\ found = StoredEqual(graph, query.attribute, query.value, 1)

\* C8: two calls of calculate_positions on the same graph return the same
\* position map.
C8_LayoutDeterministic ==
    [][(op = "calculate_positions" /\ op' = "calculate_positions" /\ graph' = graph)
          => position' = position]_vars

\* C9: the keys of the map calculate_positions returns are the nodes of the
\* graph, nodes without edges included.
C9_PositionForEveryNode ==
    op = "calculate_positions" => DOMAIN position = NodeSet(graph)

\* a layout of a graph of several nodes and no edge
C9_Witness ==
    /\ op = "calculate_positions"
    /\ EdgeSet(graph) = {}
    /\ Cardinality(NodeSet(graph)) >= 2
    /\ DOMAIN position = NodeSet(graph)

\* C10: in the trace create_node_trace returns, every node's marker has the
\* node's name as text and the listing of that node's attributes as hover.
C10_HoverOfEachNode ==
    (op = "create_node_trace" /\ raised = "none") =>
        /\ Len(node_trace.text) = Len(graph.node)
        /\ \A i \in 1..Len(graph.node) :
              /\ node_trace.text[i] = DictAt(graph.node[i][2], "name")
              /\ MarkerHover(node_trace, i) = HoverText(graph.node[i][2])

\* C11: for a built graph of E edges and N nodes the diagram is rendered:
\* create_edge_trace returns 2*E primitives, for each edge in enumeration
\* order a line and then a label with the edge's relation_type,
\* create_node_trace returns N markers, and the figure lists the edge
\* primitives before the node trace.
C11_PrimitivesPerEdgeAndNode ==
    op = "interactive_visualize" =>
        /\ raised = "none"
        /\ Len(edge_traces) = 2 * Len(edges(graph))
        /\ \A k \in 1..Len(edges(graph)) :
              /\ edge_traces[2 * k - 1].mode = "lines"
              /\ edge_traces[2 * k].mode = "text"
              /\ edge_traces[2 * k].text = <<DictAt(edges(graph)[k][3], "relation_type")>>
        /\ Len(node_trace.x) = Len(graph.node)
        /\ Len(node_trace.text) = Len(graph.node)
        /\ figure = edge_traces \o <<node_trace>>

\* C12: build_graph leaves the scene it is given as it was: every object's
\* attributes, name, relations and other keys are the same after the build.
C12_SceneUnchanged ==
    op = "build_graph" => data = data0

\* what the claims about the overlay speak of
Drawn == op = "draw_graph_on_image" /\ raised # "FileNotFoundError"

FarCorner(rect) == <<rect.xy[1] + rect.width, rect.xy[2] + rect.height>>

\* C13: on an image that opens, draw_graph_on_image draws for every object of
\* the scene a rectangle whose corners are (x_min * width, y_min * height) and
\* (x_max * width, y_max * height); on a 1000 x 800 image the box 0.1, 0.2,
\* 0.4, 0.6 spans pixel (100, 160) to (400, 480)
C13_BoundingBoxRectangles ==
    Drawn =>
        /\ Len(overlay.rects) = Len(data)
        /\ \A i \in 1..Len(data) :
              LET bbox == data[i].bounding_box
                  rect == overlay.rects[i]
              IN  /\ rect.xy = <<Tenths(bbox.x_min, overlay.size[1]),
                                 Tenths(bbox.y_min, overlay.size[2])>>
                  /\ FarCorner(rect) = <<Tenths(bbox.x_max, overlay.size[1]),
                                         Tenths(bbox.y_max, overlay.size[2])>>
                  /\ (bbox = [x_min |-> 1, y_min |-> 2, x_max |-> 4, y_max |-> 6]
                      /\ overlay.size = <<1000, 800>>)
                     => rect.xy = <<100, 160>> /\ FarCorner(rect) = <<400, 480>>

C13_Witness ==
    /\ Drawn
    /\ raised = "none"
    /\ Len(data) = 2
    /\ \E i \in 1..Len(data) :
          /\ overlay.rects[i].xy = <<100, 160>>
          /\ FarCorner(overlay.rects[i]) = <<400, 480>>
    /\ \E i \in 1..Len(data) : overlay.rects[i].xy[1] = 300

\* C14: when the image cannot be opened, draw_graph_on_image draws nothing
\* and leaves the graph, the position map computed earlier and the scene
\* exactly as they were before the call
C14_FailedOpenChangesNothing ==
    [][(op' = "draw_graph_on_image" /\ raised' = "FileNotFoundError")
       => /\ overlay' = NoOverlay
          /\ graph' = graph
          /\ position' = position
          /\ data' = data]_vars

\* a later diagram render from the graph and the positions left behind
LaterRender == create_edge_trace(graph, position)

C14_Witness ==
    /\ op = "draw_graph_on_image"
    /\ raised = "FileNotFoundError"
    /\ Len(edges(graph)) > 0
    /\ DOMAIN position = NodeSet(graph)
    /\ \A k \in 1..Len(edges(graph)) : ~ DictHas(edges(graph)[k][3], "label")
    /\ LaterRender.err = "none"
    /\ Len(LaterRender.ret) = 2 * Len(edges(graph))

\* the relations of a scene as (object index, relation index), and the build
\* order on them: objects in input order, each object's relations in order
RelationsOf(s) ==
    {ij \in (1..Len(s)) \X (1..MaxParallel) : ij[2] <= Len(s[ij[1]].relations)}

Before(a, b) == a[1] < b[1] \/ (a[1] = b[1] /\ a[2] <= b[2])

PairOf(s, ij) == {s[ij[1]].id, s[ij[1]].relations[ij[2]].object_id}

\* the relation connecting the pair P that build_graph processes last
LastOf(s, P) ==
    CHOOSE a \in RelationsOf(s) :
        /\ PairOf(s, a) = P
        /\ \A b \in RelationsOf(s) : PairOf(s, b) = P => Before(b, a)

EdgesOf(G, P) == {k \in 1..Len(edges(G)) : {edges(G)[k][1], edges(G)[k][2]} = P}

\* C15: when several relations connect the same unordered pair of objects,
\* in the same or in opposite directions, the built graph holds one edge for
\* the pair and its relation_type and description are those of the relation
\* processed last in build order; nothing of the earlier relations is kept
C15_LastRelationWins ==
    op = "build_graph" =>
        \A a \in RelationsOf(data) :
            LET P    == PairOf(data, a)
                last == data[LastOf(data, P)[1]].relations[LastOf(data, P)[2]]
            IN  /\ Cardinality(EdgesOf(graph, P)) = 1
                /\ \A k \in EdgesOf(graph, P) :
                      edges(graph)[k][3] =
                          << <<"relation_type", last.relation_type>>,
                             <<"description", last.relation_description>> >>

C15_Witness ==
    /\ op = "build_graph"
    /\ raised = "none"
    /\ Len(data) = 2
    /\ data[1].id = 1 /\ data[2].id = 2
    /\ Len(data[1].relations) = 2 /\ Len(data[2].relations) = 1
    /\ data[1].relations[1].object_id = 2 /\ data[1].relations[2].object_id = 2
    /\ data[2].relations[1].object_id = 1
    /\ data[1].relations[1].relation_type # data[1].relations[2].relation_type
    /\ data[2].relations[1].relation_type # data[1].relations[2].relation_type
    /\ Len(edges(graph)) = 1
    /\ DictAt(edges(graph)[1][3], "relation_type") = data[2].relations[1].relation_type

\* C16: for every relation of a built scene, the line that create_edge_trace
\* emits for its edge runs from the position of the relation's source, the
\* owning object, to the position of its target, whatever the order of the
\* two objects in the input
C16_LineFromSourceToTarget ==
    (op = "create_edge_trace" /\ raised = "none") =>
        \A i \in 1..Len(data) : \A j \in 1..Len(Get(data[i], "relations", <<>>)) :
            LET source == data[i].id
                target == data[i].relations[j].object_id
            IN  \A k \in EdgesOf(graph, {source, target}) :
                    /\ edge_traces[2 * k - 1].mode = "lines"
                    /\ edge_traces[2 * k - 1].x = <<position[source][1], position[target][1]>>
                    /\ edge_traces[2 * k - 1].y = <<position[source][2], position[target][2]>>

\* C17: in draw_graph_on_image every node's rescaled position, layout x times
\* image width and layout y times image height, lies inside the image
\* rectangle [0, width] x [0, height], for every position map that
\* calculate_positions can return
C17_NodesInsideImage ==
    (op = "draw_graph_on_image" /\ raised = "none") =>
        \A i \in 1..Len(overlay.dots) :
            /\ 0 <= overlay.dots[i][1] /\ overlay.dots[i][1] <= overlay.size[1]
            /\ 0 <= overlay.dots[i][2] /\ overlay.dots[i][2] <= overlay.size[2]

====
